---- MODULE Spec2Model ----
(***************************************************************************)
(* One invocation of deploy_rest.py: main() driving an AzureRestDeployer   *)
(* through authentication, the resource-group step, the BICEP build and    *)
(* then either validate_deployment (what-if) or deploy_template, with the  *)
(* two poll loops _poll_deployment and _poll_async_operation.              *)
(*                                                                         *)
(* The remote control plane, the credential providers, the az subprocess   *)
(* and the clock are the environment: every response is drawn from a small *)
(* set at the step that reads it.  The clock is time.time() in whole       *)
(* ticks; it never runs backwards, a request takes 0..MaxDelay ticks and   *)
(* time.sleep(n) takes at least n ticks.                                   *)
(***************************************************************************)
EXTENDS Integers, Sequences, FiniteSets

\* ---------------------------------------------------------------- bounds
\* Largest deadline (the `timeout` argument of a poll loop) explored.
MaxTimeout == 3
\* Largest `poll_interval` explored (the smallest is 1: time.sleep needs > 0
\* to make progress and rejects negative values).
MaxInterval == 2
\* Largest latency, in ticks, added to one loop iteration by the request and
\* by time.sleep oversleeping.
MaxDelay == 1
\* Largest clock reading at the start of the invocation.
MaxClock0 == 1
\* Clock ticks to one second of time.time(), and the last tick explored,
\* where two invocations derive their deployment names.
TicksPerSecond == 2
MaxNameClock == 5

VARIABLES
    pc,              \* the statement of main() the invocation is at
    what_if,         \* args.what_if
    timeout,         \* `timeout` of the poll loop this invocation runs
    poll_interval,   \* `poll_interval` of that loop
    now,             \* time.time()
    subscription_id, \* main: subscription_id
    credential,      \* self.credential
    access_token,    \* self.access_token
    auth_primary,    \* how the AzureCliCredential token request ended
    auth_secondary,  \* how the DefaultAzureCredential token request ended
    parameters,      \* main: parameters
    rg_response,     \* what the GET of the resource group answered
    rg_exists,       \* what check_resource_group_exists returned
    rg_created,      \* what create_resource_group returned
    template,        \* main: template
    submit_response, \* what the submission (PUT or whatIf POST) answered
    start_time,      \* poll loop: start_time
    fetched,         \* the answer to the latest GET of the poll loop
    last_status,     \* _poll_deployment: last_status
    poll_end,        \* why the poll loop ended
    poll_ret,        \* what the poll loop returned
    result,          \* main: result (what deploy_template returned)
    validate_ret,    \* what validate_deployment returned
    outputs,         \* main: outputs
    calls,           \* how many times each external operation was issued
    exit_code,       \* what main returned
    params_doc,      \* load_parameters: params, the parsed parameter file
    params_ret,      \* load_parameters: what it returned
    names            \* the deployment name each of two invocations derived

vars == << pc, what_if, timeout, poll_interval, now, subscription_id,
           credential, access_token, auth_primary, auth_secondary,
           parameters, rg_response,
           rg_exists, rg_created, template, submit_response, start_time,
           fetched, last_status,
           poll_end, poll_ret, result, validate_ret, outputs, calls,
           exit_code, params_doc, params_ret, names >>

\* ------------------------------------------------------------ vocabulary
\* External operations the invocation issues.
Ops == { "az_account_show", "get_token_cli", "get_token_default",
         "GET_subscription", "GET_resourcegroup", "PUT_resourcegroup",
         "bicep_build", "POST_whatIf", "PUT_deployment", "GET_status",
         "GET_location", "GET_outputs", "sleep", "notify" }

\* The requests that go to the control plane (management.azure.com).
NetworkOps == { "GET_subscription", "GET_resourcegroup", "PUT_resourcegroup",
                "POST_whatIf", "PUT_deployment", "GET_status",
                "GET_location", "GET_outputs" }

\* Python's None as a status string, and the unset value of a variable not
\* yet assigned.
None == "None"
Unset == "unset"

\* Values functions return: None, or a parsed JSON document (a dict) with
\* its provisioningState (None when it has none) and what it holds
\* ("empty" is the empty dict {}).
NoneValue == [ kind |-> "None", provisioningState |-> None, content |-> "none" ]
Dict(state, content) ==
    [ kind |-> "dict", provisioningState |-> state, content |-> content ]

\* The test `v is not None`: {} passes it.
IsNotNone(v) == v.kind = "dict"

\* Python truthiness of such a value: None and {} are falsy.
Truthy(v) == v.kind = "dict" /\ v.content # "empty"

\* provisioningState values: the ones the loop ends on, the other declared
\* ones, a value outside the enumeration, and an absent field (.get -> None).
TerminalStates == { "Succeeded", "Failed", "Canceled" }
TransientStates == { "Accepted", "Running", "Deleting", None }
ProvisioningStates == TerminalStates \cup TransientStates

\* HTTP status codes the environment answers with.
SuccessCodes == { 200, 202 }
ErrorCodes == { 403, 404, 503 }

\* A response of the control plane: err is TRUE when requests.<verb> raised
\* a RequestException instead of returning.
Response(err, code, state, location, payload) ==
    [ err |-> err, code |-> code, state |-> state,
      location |-> location, payload |-> payload ]

NoResponse == Response(FALSE, -1, None, FALSE, "none")

\* requests raising before any response exists (a ConnectionError, a Timeout).
Failure == Response(TRUE, 0, None, FALSE, "none")

\* A response that carries nothing but its status code.
Status(code) == Response(FALSE, code, None, FALSE, "none")

\* response.raise_for_status(): raises HTTPError for 4xx and 5xx.
RaiseForStatus(resp) == resp.code >= 400 /\ resp.code < 600

\* The try block around a request that calls raise_for_status() takes its
\* `except requests.exceptions.RequestException` branch.
Raised(resp) == resp.err \/ RaiseForStatus(resp)

Call(c, op) == [ c EXCEPT ![op] = @ + 1 ]

Bool(b) == IF b THEN "True" ELSE "False"

\* ------------------------------------------------------- the environment
\* Outcomes of credential.get_token: a token, the authentication-specific
\* ClientAuthenticationError, or any other exception.
TokenOutcomes == { "token", "ClientAuthenticationError", "Exception" }

\* Answers to GET .../resourcegroups/{name}.
RgGetResponses == { Failure } \cup { Status(c) : c \in {200} \cup ErrorCodes }

\* Answers to PUT .../resourcegroups/{name}.
RgPutResponses == { Failure } \cup { Status(c) : c \in {200} \cup ErrorCodes }

\* Answers to PUT .../deployments/{deployment_name}.
DeployPutResponses ==
    { Failure } \cup { Status(c) : c \in SuccessCodes \cup ErrorCodes }

\* Answers to POST .../whatIf: a 202 comes with or without a Location header.
WhatIfPostResponses ==
    { Failure } \cup { Status(c) : c \in {200} \cup ErrorCodes }
    \cup { Response(FALSE, 202, None, l, "none") : l \in BOOLEAN }

\* Answers to GET .../deployments/{deployment_name} in the poll loop.
StatusGetResponses ==
    { Failure } \cup { Status(c) : c \in ErrorCodes }
    \cup { Response(FALSE, 200, s, FALSE, "none") : s \in ProvisioningStates }

\* Answers to GET location_url: a 200 carries a JSON document, empty or not.
LocationGetResponses ==
    { Failure } \cup { Status(c) : c \in {202} \cup ErrorCodes }
    \cup { Response(FALSE, 200, None, FALSE, p) : p \in {"empty", "preview"} }

\* Answers to the outputs GET: the template defines outputs or none.
OutputsGetResponses ==
    { Failure } \cup { Status(c) : c \in ErrorCodes }
    \cup { Response(FALSE, 200, "Succeeded", FALSE, p) : p \in {"empty", "outputs"} }

\* ------------------------------------------------------- parameter files
\* JSON values of a parameter file: a scalar, or an object (a dict) given by
\* its fields.  JsonNull is what dict.get returns for an absent key.
EmptyFields == [ n \in {} |-> "" ]
Scalar(a) == [ kind |-> "scalar", scalar |-> a, fields |-> EmptyFields ]
Object(f) == [ kind |-> "object", scalar |-> "", fields |-> f ]
JsonNull == Scalar("null")

\* The objects with field names among `keys` and field values among `vals`.
Objects(keys, vals) == UNION { [ K -> vals ] : K \in SUBSET keys }

\* Parameter files explored: a top-level object whose fields are named x or
\* parameters, each a scalar or an object; the latter's fields are named x
\* or y, each a scalar, {"value": scalar} or {}.
Scalars == { Scalar("5"), Scalar("7") }
ParamEntries ==
    Scalars \cup { Object(f) : f \in Objects({ "value" }, Scalars) }
TopValues ==
    Scalars \cup { Object(f) : f \in Objects({ "x", "y" }, ParamEntries) }
Docs == Objects({ "x", "parameters" }, TopValues)

\* What load_parameters returns: a mapping, or None.
Loaded(mapping) == [ ok |-> TRUE, mapping |-> mapping ]
LoadFailed == [ ok |-> FALSE, mapping |-> EmptyFields ]

\* ------------------------------------------------------ deployment names
\* The invocations that run side by side, and the name of an invocation
\* that has not derived one yet.
Runs == { 1, 2 }
Name(prefix, stamp) == [ prefix |-> prefix, stamp |-> stamp ]
NoName == Name(Unset, -1)

\* ------------------------------------------------------------------ Init
\* The deployer and main's locals before main's first statement.
InitMain ==
    /\ subscription_id = Unset
    /\ credential = None
    /\ access_token = None
    /\ auth_primary = Unset
    /\ auth_secondary = Unset
    /\ parameters = Unset
    /\ rg_response = NoResponse
    /\ rg_exists = Unset
    /\ rg_created = Unset
    /\ template = Unset
    /\ submit_response = NoResponse
    /\ start_time = 0
    /\ fetched = NoResponse
    /\ last_status = None
    /\ poll_end = Unset
    /\ poll_ret = NoneValue
    /\ result = NoneValue
    /\ validate_ret = Unset
    /\ outputs = NoneValue
    /\ calls = [ op \in Ops |-> 0 ]
    /\ exit_code = -1

Init ==
    /\ pc = "subscription"
    /\ what_if \in BOOLEAN
    /\ timeout \in 0..MaxTimeout
    /\ poll_interval \in 1..MaxInterval
    /\ now \in 0..MaxClock0
    /\ InitMain
    /\ params_doc = EmptyFields
    /\ params_ret = LoadFailed
    /\ names = [ r \in Runs |-> NoName ]

\* main returns `code`.
Return(code) == pc' = "done" /\ exit_code' = code

argVars == << what_if, timeout, poll_interval >>
sideVars == << params_doc, params_ret, names >>
authVars == << credential, access_token, auth_primary, auth_secondary >>
rgVars == << rg_response, rg_exists, rg_created >>
pollVars == << start_time, fetched, last_status, poll_end, poll_ret >>
endVars == << result, validate_ret, outputs >>

\* --------------------------------------------------- main, up to the build
\* main: the subscription id comes from -s or from `az account show`.
GetSubscriptionId ==
    /\ pc = "subscription"
    /\ \E given \in BOOLEAN, az_ok \in BOOLEAN :
         /\ calls' = IF given THEN calls ELSE Call(calls, "az_account_show")
         /\ IF given \/ az_ok
              THEN /\ subscription_id' = "subscription"
                   /\ pc' = "authenticate"
                   /\ exit_code' = exit_code
              ELSE /\ subscription_id' = subscription_id
                   /\ Return(1)
    /\ UNCHANGED << argVars, sideVars, now, authVars, parameters, rgVars, template,
                    submit_response, pollVars, endVars >>

\* A fallback on every failure of the primary provider (a bare `except`).
TriesSecondaryOnAnyFailure(primary) == primary # "token"

\* authenticate: the secondary provider (DefaultAzureCredential) is tried
\* exactly when the primary raised ClientAuthenticationError.
TriesSecondary(primary) == primary = "ClientAuthenticationError"

\* authenticate's return value, from the two providers' outcomes.
AuthenticateReturn(primary, secondary) ==
    \/ primary = "token"
    \/ TriesSecondary(primary) /\ secondary = "token"

\* main: `if not deployer.authenticate(): return 1`.
Authenticate ==
    /\ pc = "authenticate"
    /\ \E primary \in TokenOutcomes, secondary \in TokenOutcomes :
         /\ auth_primary' = primary
         /\ auth_secondary' = IF TriesSecondary(primary) THEN secondary
                                                         ELSE auth_secondary
         /\ calls' = IF TriesSecondary(primary)
                       THEN Call(Call(calls, "get_token_cli"), "get_token_default")
                       ELSE Call(calls, "get_token_cli")
         /\ credential' = IF TriesSecondary(primary)
                            THEN "DefaultAzureCredential"
                            ELSE "AzureCliCredential"
         /\ access_token' = IF AuthenticateReturn(primary, secondary)
                              THEN "token" ELSE access_token
         /\ IF AuthenticateReturn(primary, secondary)
              THEN pc' = "subscription_info" /\ exit_code' = exit_code
              ELSE Return(1)
    /\ UNCHANGED << argVars, sideVars, now, subscription_id, parameters, rgVars,
                    template, submit_response, pollVars, endVars >>

\* Answers to GET .../subscriptions/{id}.
SubscriptionGetResponses ==
    { Failure } \cup { Status(c) : c \in {200} \cup ErrorCodes }

\* main: get_subscription_info is called and its failure is only printed.
GetSubscriptionInfo ==
    /\ pc = "subscription_info"
    /\ \E resp \in SubscriptionGetResponses :
         calls' = Call(calls, "GET_subscription")
    /\ pc' = "parameters"
    /\ UNCHANGED << argVars, sideVars, now, subscription_id, authVars, parameters,
                    rgVars, template, submit_response, pollVars, endVars,
                    exit_code >>

\* main: the parameter file must exist and load_parameters must not return
\* None.
LoadParameters ==
    /\ pc = "parameters"
    /\ \E file \in { "missing", "unreadable", "loaded" } :
         IF file = "loaded"
           THEN /\ parameters' = "parameters"
                /\ pc' = "resource_group"
                /\ exit_code' = exit_code
           ELSE /\ parameters' = IF file = "missing" THEN parameters ELSE None
                /\ Return(1)
    /\ UNCHANGED << argVars, sideVars, now, subscription_id, authVars, rgVars,
                    template, submit_response, pollVars, endVars, calls >>

\* check_resource_group_exists: True for a 200 answer; any other answer
\* and a RequestException both give False.
CheckResourceGroupExists(resp) == ~resp.err /\ resp.code = 200

\* create_resource_group: True unless the PUT raised.
CreateResourceGroup(resp) == ~Raised(resp)

\* main: `if not deployer.check_resource_group_exists(...)`: create.
CreatesResourceGroup(exists) == ~exists

\* main: check the resource group and create it when the check said no;
\* a failed creation returns 1.
EnsureResourceGroup ==
    /\ pc = "resource_group"
    /\ \E get \in RgGetResponses, put \in RgPutResponses :
         LET exists == CheckResourceGroupExists(get)
             create == CreatesResourceGroup(exists)
         IN  /\ rg_response' = get
             /\ rg_exists' = Bool(exists)
             /\ rg_created' = IF create THEN Bool(CreateResourceGroup(put))
                                        ELSE rg_created
             /\ calls' = IF create
                           THEN Call(Call(calls, "GET_resourcegroup"),
                                     "PUT_resourcegroup")
                           ELSE Call(calls, "GET_resourcegroup")
             /\ IF create /\ ~CreateResourceGroup(put)
                  THEN Return(1)
                  ELSE pc' = "compile" /\ exit_code' = exit_code
    /\ UNCHANGED << argVars, sideVars, now, subscription_id, authVars, parameters,
                    template, submit_response, pollVars, endVars >>

\* An abort on the missing file only, with the None check left out.
CompileAbortsOnMissingFile(build) == build = "no_file"

\* main: `if not bicep_file.exists(): return 1` and
\* `if template is None: return 1`.
CompileAborts(build) == build # "built"

\* main: main.bicep must exist and compile_bicep must not return None.
CompileBicep ==
    /\ pc = "compile"
    /\ \E build \in { "no_file", "failed", "built" } :
         /\ calls' = IF build = "no_file" THEN calls
                                          ELSE Call(calls, "bicep_build")
         /\ template' = IF build = "built" THEN "template"
                         ELSE IF build = "failed" THEN None ELSE template
         /\ IF CompileAborts(build)
              THEN Return(1)
              ELSE pc' = "submit" /\ exit_code' = exit_code
    /\ UNCHANGED << argVars, sideVars, now, subscription_id, authVars, parameters,
                    rgVars, submit_response, pollVars, endVars >>

\* ------------------------------------------------------------ poll loops
\* A loop without a deadline (`while True`).
LoopConditionAlways(t, start, limit) == TRUE

\* The loop condition with the deadline itself still inside the budget.
LoopConditionInclusive(t, start, limit) == t - start <= limit

\* `while time.time() - start_time < timeout` of both poll loops.
LoopCondition(t, start, limit) == t - start < limit

\* The try block that lets a failed connection through and raises only on
\* an HTTP error status.
PollStatusRaisedOnStatusOnly(resp) == RaiseForStatus(resp)

\* _poll_deployment: the try block around the status GET raises (the GET
\* itself, or raise_for_status on its answer).
PollStatusRaised(resp) == Raised(resp)

\* A terminal test that also ends the loop on Running.
IsTerminalOrRunning(status) == status \in TerminalStates \cup { "Running" }

\* A terminal test that ends the loop on every state but the declared
\* transient ones.
IsTerminalUnlessDeclaredTransient(status) ==
    status \notin { "Accepted", "Running" }

\* A terminal test that ends the loop on Succeeded alone.
IsTerminalSucceededOnly(status) == status = "Succeeded"

\* _poll_deployment: `if status in ['Succeeded', 'Failed', 'Canceled']`.
IsTerminal(status) == status \in TerminalStates

\* An iteration that goes back to the loop head without sleeping.
AfterSleepNone(t, interval, d) == t + d

\* The clock after time.sleep(interval) that follows a request taking d
\* (oversleeping included in d) from clock reading t.
AfterSleep(t, interval, d) == t + d + interval

\* A progress print at every fetch.
NotifiesAlways(status, last) == TRUE

\* _poll_deployment: `if status != last_status`: print the new status.
Notifies(status, last) == status # last

\* What _poll_deployment returns: the fetched result when the loop ended on
\* a terminal state, None when it ended on a raised request ("Transport") or
\* on the deadline ("Timeout").
PollDeploymentReturn(end, fetched_result) ==
    IF end = "Terminal" THEN fetched_result ELSE NoneValue

\* One iteration of _poll_deployment's loop: the GET, the progress print,
\* then either a return or time.sleep(poll_interval).
PollDeploymentIter ==
    /\ pc = "poll_deployment"
    /\ LoopCondition(now, start_time, timeout)
    /\ \E resp \in StatusGetResponses, d \in 0..MaxDelay :
         /\ fetched' = resp
         /\ IF PollStatusRaised(resp)
              THEN /\ calls' = Call(calls, "GET_status")
                   /\ poll_ret' = PollDeploymentReturn("Transport", NoneValue)
                   /\ poll_end' = "Transport"
                   /\ pc' = "deploy_template"
                   /\ now' = now + d
                   /\ UNCHANGED last_status
              ELSE LET status == resp.state
                       seen == IF Notifies(status, last_status)
                                 THEN Call(Call(calls, "GET_status"), "notify")
                                 ELSE Call(calls, "GET_status")
                   IN  /\ last_status' = IF Notifies(status, last_status)
                                           THEN status ELSE last_status
                       /\ IF IsTerminal(status)
                            THEN /\ calls' = seen
                                 /\ poll_ret' = PollDeploymentReturn(
                                                   "Terminal",
                                                   Dict(status, "status"))
                                 /\ poll_end' = "Terminal"
                                 /\ pc' = "deploy_template"
                                 /\ now' = now + d
                            ELSE /\ calls' = Call(seen, "sleep")
                                 /\ now' = AfterSleep(now, poll_interval, d)
                                 /\ UNCHANGED << poll_ret, poll_end, pc >>
    /\ UNCHANGED << argVars, sideVars, subscription_id, authVars, parameters, rgVars,
                    template, submit_response, start_time, endVars,
                    exit_code >>

\* _poll_deployment: the loop condition fails; "timed out" is printed and
\* None returned.
PollDeploymentTimeout ==
    /\ pc = "poll_deployment"
    /\ ~LoopCondition(now, start_time, timeout)
    /\ poll_ret' = PollDeploymentReturn("Timeout", NoneValue)
    /\ poll_end' = "Timeout"
    /\ pc' = "deploy_template"
    /\ UNCHANGED << argVars, sideVars, now, subscription_id, authVars, parameters,
                    rgVars, template, submit_response, start_time, fetched,
                    last_status, endVars, calls, exit_code >>

\* _poll_async_operation: the GET of the Location URL raises.
PollLocationRaised(resp) == resp.err

\* One iteration of _poll_async_operation's loop: 200 returns the JSON
\* document, 202 sleeps, anything else returns None.
PollAsyncIter ==
    /\ pc = "poll_async"
    /\ LoopCondition(now, start_time, timeout)
    /\ \E resp \in LocationGetResponses, d \in 0..MaxDelay :
         /\ fetched' = resp
         /\ IF PollLocationRaised(resp)
              THEN /\ calls' = Call(calls, "GET_location")
                   /\ poll_ret' = NoneValue
                   /\ poll_end' = "Transport"
                   /\ pc' = "validate_deployment"
                   /\ now' = now + d
              ELSE IF resp.code = 200
              THEN /\ calls' = Call(calls, "GET_location")
                   /\ poll_ret' = Dict(None, resp.payload)
                   /\ poll_end' = "Resolved"
                   /\ pc' = "validate_deployment"
                   /\ now' = now + d
              ELSE IF resp.code = 202
              THEN /\ calls' = Call(Call(calls, "GET_location"), "sleep")
                   /\ now' = AfterSleep(now, poll_interval, d)
                   /\ UNCHANGED << poll_ret, poll_end, pc >>
              ELSE /\ calls' = Call(calls, "GET_location")
                   /\ poll_ret' = NoneValue
                   /\ poll_end' = "Status"
                   /\ pc' = "validate_deployment"
                   /\ now' = now + d
    /\ UNCHANGED << argVars, sideVars, subscription_id, authVars, parameters, rgVars,
                    template, submit_response, start_time, last_status,
                    endVars, exit_code >>

\* _poll_async_operation: the loop condition fails; None is returned.
PollAsyncTimeout ==
    /\ pc = "poll_async"
    /\ ~LoopCondition(now, start_time, timeout)
    /\ poll_ret' = NoneValue
    /\ poll_end' = "Timeout"
    /\ pc' = "validate_deployment"
    /\ UNCHANGED << argVars, sideVars, now, subscription_id, authVars, parameters,
                    rgVars, template, submit_response, start_time, fetched,
                    last_status, endVars, calls, exit_code >>

\* ------------------------------------------------------ the what-if path
\* main: `if args.what_if:` selects validate_deployment, else deploy_template.
SelectsWhatIf(w) == w
\* The deployment branch without its `else`.
SelectsDeployAlways(w) == TRUE
SelectsDeploy(w) == ~w

\* main: the value of validate_deployment is dropped and main ends in
\* `return 0`.
WhatIfExitCode(validated) == 0

\* validate_deployment: the POST raised (the POST itself, or
\* raise_for_status on its answer).
WhatIfSubmitRaised(resp) == Raised(resp)

\* A poll started on every 202, whether or not it names a Location.
WhatIfPollsWithoutLocation(resp) == resp.code = 202

\* validate_deployment: a 202 answer with a Location header is polled.
WhatIfPolls(resp) == resp.code = 202 /\ resp.location

\* validate_deployment returns without polling: False when the POST raised
\* or a 202 came without Location, True for any other answer.
WhatIfInline(resp) == ~WhatIfSubmitRaised(resp) /\ resp.code # 202

\* validate_deployment up to its poll loop, and main's return when there is
\* no poll.
SubmitWhatIf ==
    /\ pc = "submit"
    /\ SelectsWhatIf(what_if)
    /\ \E resp \in WhatIfPostResponses :
         /\ submit_response' = resp
         /\ calls' = Call(calls, "POST_whatIf")
         /\ IF ~WhatIfSubmitRaised(resp) /\ WhatIfPolls(resp)
              THEN /\ pc' = "poll_async"
                   /\ start_time' = now
                   /\ UNCHANGED << validate_ret, exit_code >>
              ELSE /\ validate_ret' = Bool(WhatIfInline(resp))
                   /\ Return(WhatIfExitCode(WhatIfInline(resp)))
                   /\ UNCHANGED start_time
    /\ UNCHANGED << argVars, sideVars, now, subscription_id, authVars, parameters,
                    rgVars, template, fetched, last_status, poll_end,
                    poll_ret, result, outputs >>

\* validate_deployment after its poll loop (`if result: return True`, else
\* `return False`), and main's return.
ValidateReturn ==
    /\ pc = "validate_deployment"
    /\ validate_ret' = Bool(Truthy(poll_ret))
    /\ Return(WhatIfExitCode(Truthy(poll_ret)))
    /\ UNCHANGED << argVars, sideVars, now, subscription_id, authVars, parameters,
                    rgVars, template, submit_response, pollVars, result,
                    outputs, calls >>

\* ------------------------------------------------------- the deploy path
\* The try block without raise_for_status: only a failed connection raises.
DeploySubmitRaisedOnErrOnly(resp) == resp.err

\* deploy_template: the PUT raised (the PUT itself, or raise_for_status on
\* its answer).
DeploySubmitRaised(resp) == Raised(resp)

\* deploy_template up to its poll loop; a raised PUT returns None to main.
SubmitDeployment ==
    /\ pc = "submit"
    /\ SelectsDeploy(what_if)
    /\ \E resp \in DeployPutResponses :
         /\ submit_response' = resp
         /\ calls' = Call(calls, "PUT_deployment")
         /\ IF DeploySubmitRaised(resp)
              THEN /\ result' = NoneValue
                   /\ pc' = "deployed"
                   /\ UNCHANGED << start_time, last_status >>
              ELSE /\ pc' = "poll_deployment"
                   /\ start_time' = now
                   /\ last_status' = None
                   /\ UNCHANGED result
    /\ UNCHANGED << argVars, sideVars, now, subscription_id, authVars, parameters,
                    rgVars, template, fetched, poll_end, poll_ret,
                    validate_ret, outputs, exit_code >>

\* A deploy_template that hands on whatever _poll_deployment returned.
DeployTemplateResultAnyTerminal(polled) == polled

\* deploy_template's return value from what _poll_deployment returned: the
\* result when its provisioningState is Succeeded, None otherwise.
DeployTemplateResult(polled) ==
    IF Truthy(polled) /\ polled.provisioningState = "Succeeded"
      THEN polled ELSE NoneValue

\* deploy_template after its poll loop.
DeployTemplateReturn ==
    /\ pc = "deploy_template"
    /\ result' = DeployTemplateResult(poll_ret)
    /\ pc' = "deployed"
    /\ UNCHANGED << argVars, sideVars, now, subscription_id, authVars, parameters,
                    rgVars, template, submit_response, pollVars,
                    validate_ret, outputs, calls, exit_code >>

\* main: `if result:` fetches the outputs and returns 0, else returns 1.
DeployExitCode(res) == IF Truthy(res) THEN 0 ELSE 1

\* get_deployment_outputs: properties.outputs of the answer, None when the
\* GET raised.
GetDeploymentOutputs(resp) ==
    IF Raised(resp) THEN NoneValue ELSE Dict(resp.state, resp.payload)

\* main after deploy_template returned.
FinishDeployment ==
    /\ pc = "deployed"
    /\ IF Truthy(result)
         THEN \E resp \in OutputsGetResponses :
                /\ outputs' = GetDeploymentOutputs(resp)
                /\ calls' = Call(calls, "GET_outputs")
         ELSE UNCHANGED << outputs, calls >>
    /\ Return(DeployExitCode(result))
    /\ UNCHANGED << argVars, sideVars, now, subscription_id, authVars, parameters,
                    rgVars, template, submit_response, pollVars, result,
                    validate_ret >>

\* --------------------------------------------------------- specification
Next ==
    \/ GetSubscriptionId
    \/ Authenticate
    \/ GetSubscriptionInfo
    \/ LoadParameters
    \/ EnsureResourceGroup
    \/ CompileBicep
    \/ SubmitWhatIf
    \/ PollAsyncIter
    \/ PollAsyncTimeout
    \/ ValidateReturn
    \/ SubmitDeployment
    \/ PollDeploymentIter
    \/ PollDeploymentTimeout
    \/ DeployTemplateReturn
    \/ FinishDeployment

Spec == Init /\ [][Next]_vars

\* The invocation is a running process: a statement that can execute does
\* (every request returns, every sleep ends).
SpecFair == Spec /\ WF_vars(Next)

\* --------------------------------------------------- load_parameters alone
\* dict.get(key) on an object.
Get(obj, key) ==
    IF key \in DOMAIN obj.fields THEN obj.fields[key] ELSE JsonNull

\* load_parameters on a parsed file: with a top-level key 'parameters' the
\* result maps each name under it to its .get('value'), and the
\* AttributeError of .items() or .get on a non-dict is caught and gives
\* None; without that key the file is returned as it is.
LoadParametersFn(params) ==
    IF "parameters" \in DOMAIN params
      THEN LET inner == params["parameters"]
           IN  IF /\ inner.kind = "object"
                  /\ \A k \in DOMAIN inner.fields :
                        inner.fields[k].kind = "object"
                 THEN Loaded([ k \in DOMAIN inner.fields |->
                                 Get(inner.fields[k], "value") ])
                 ELSE LoadFailed
      ELSE Loaded(params)

\* A call of load_parameters on a file that parses.
LoadParametersFile ==
    /\ pc = "load_parameters"
    /\ params_ret' = LoadParametersFn(params_doc)
    /\ pc' = "loaded"
    /\ UNCHANGED << what_if, timeout, poll_interval, now, subscription_id,
                    authVars, parameters, rgVars, template, submit_response,
                    pollVars, endVars, calls, exit_code, params_doc, names >>

InitParams ==
    /\ pc = "load_parameters"
    /\ what_if = FALSE
    /\ timeout = 0
    /\ poll_interval = 1
    /\ now = 0
    /\ InitMain
    /\ params_doc \in Docs
    /\ params_ret = LoadFailed
    /\ names = [ r \in Runs |-> NoName ]

NextParams == LoadParametersFile

SpecParams == InitParams /\ [][NextParams]_vars

\* ------------------------------------------- two invocations side by side
\* int(time.time()) at clock reading t.
Seconds(t) == t \div TicksPerSecond

\* The deployment name main derives at clock reading t: validation-<s> in
\* validate_deployment, sentinel-deployment-<s> on the deploy path.
DeploymentName(w, t) ==
    Name(IF w THEN "validation" ELSE "sentinel-deployment", Seconds(t))

\* Invocation r reaches its submission and derives its deployment name.
DeriveName(r) ==
    /\ pc = "names"
    /\ names[r] = NoName
    /\ \E w \in BOOLEAN :
         names' = [ names EXCEPT ![r] = DeploymentName(w, now) ]
    /\ UNCHANGED << pc, argVars, now, subscription_id, authVars, parameters,
                    rgVars, template, submit_response, pollVars, endVars,
                    calls, exit_code, params_doc, params_ret >>

\* Time passes between the steps of the two invocations.
Tick ==
    /\ pc = "names"
    /\ now < MaxNameClock
    /\ now' = now + 1
    /\ UNCHANGED << pc, argVars, sideVars, subscription_id, authVars,
                    parameters, rgVars, template, submit_response, pollVars,
                    endVars, calls, exit_code >>

InitNames ==
    /\ pc = "names"
    /\ what_if = FALSE
    /\ timeout = 0
    /\ poll_interval = 1
    /\ now = 0
    /\ InitMain
    /\ params_doc = EmptyFields
    /\ params_ret = LoadFailed
    /\ names = [ r \in Runs |-> NoName ]

NextNames ==
    \/ \E r \in Runs : DeriveName(r)
    \/ Tick

SpecNames == InitNames /\ [][NextNames]_vars

\* ================================================================ claims
\* ceil(a / b) for b > 0.
Ceil(a, b) == (a + b - 1) \div b

\* C1: in any run of _poll_deployment with deadline `timeout` and interval
\* `poll_interval`, the number of status fetches issued is at most
\* ceil(timeout / poll_interval), whatever transient states are returned.
C1_FetchesBounded ==
    calls["GET_status"] <= Ceil(timeout, poll_interval)

\* C1 witness: a loop that ran into its deadline after fetching the full
\* ceil(timeout / poll_interval) >= 2 transient answers.
C1_Witness ==
    /\ poll_end = "Timeout"
    /\ ~what_if
    /\ calls["GET_status"] = Ceil(timeout, poll_interval)
    /\ calls["GET_status"] >= 2
    /\ fetched.state \in TransientStates

\* Values _poll_deployment returns when its loop ends for reason `end`.
PollReturnsOn(end) ==
    IF end = "Terminal"
      THEN { PollDeploymentReturn(end, Dict(st, "status")) : st \in TerminalStates }
      ELSE { PollDeploymentReturn(end, NoneValue) }

\* C2: when the deadline elapses without a terminal state, the outcome is a
\* timeout the caller can tell apart from success, from an explicit remote
\* failure and from a transport failure during polling: the value
\* _poll_deployment returns, and the value deploy_template hands to main,
\* is none of the values returned in those other cases.
C2_TimeoutDistinguishable ==
    (~what_if /\ poll_end = "Timeout") =>
        /\ poll_ret \notin PollReturnsOn("Terminal") \cup PollReturnsOn("Transport")
        /\ pc \in { "deployed", "done" } =>
             result \notin { DeployTemplateResult(v) :
                               v \in PollReturnsOn("Terminal")
                                       \cup PollReturnsOn("Transport") }

\* Positions of main inside a poll loop, and the fetches issued by the two
\* loops together.
PollPcs == { "poll_deployment", "poll_async" }
Fetches == calls["GET_status"] + calls["GET_location"]

\* A request failed: it raised, or it was answered 4xx/5xx.
RequestFailed(resp) == resp.err \/ resp.code >= 400

\* C3: in both poll loops a transport failure on a status fetch ends the
\* loop at once: the loop returns None (never an earlier fetched status)
\* and no fetch is issued after the failed one.
C3_TransportFailureEndsLoop ==
    [][ /\ (Fetches' > Fetches /\ RequestFailed(fetched')) =>
             (pc' \notin PollPcs /\ poll_ret' = NoneValue)
        /\ RequestFailed(fetched) =>
             (Fetches' = Fetches /\ poll_ret' = NoneValue) ]_vars

\* C3 witness: _poll_deployment fetched Running, then a later fetch raised,
\* and the loop returned None.
C3_Witness ==
    /\ poll_end = "Transport"
    /\ fetched.err
    /\ calls["GET_status"] >= 2
    /\ last_status = "Running"
    /\ poll_ret = NoneValue
    /\ pc = "deploy_template"

\* C4: _poll_deployment returns a status result only when its
\* provisioningState is Succeeded, Failed or Canceled (the state just
\* fetched); once such a state is fetched no further status fetch is
\* issued; and the outputs GET is issued at most once, only after Succeeded.
C4_TerminalStopsPolling ==
    /\ [](poll_ret.kind = "dict" /\ ~what_if =>
            /\ poll_ret.provisioningState \in TerminalStates
            /\ poll_ret.provisioningState = fetched.state)
    /\ [](/\ calls["GET_outputs"] <= 1
          /\ calls["GET_outputs"] = 1 =>
               (poll_ret.provisioningState = "Succeeded" /\ pc = "done"))
    /\ [][ (~RequestFailed(fetched) /\ fetched.state \in TerminalStates) =>
             calls'["GET_status"] = calls["GET_status"] ]_vars

\* C4 witness: Accepted, Running, Succeeded were fetched, then the outputs.
C4_Witness ==
    /\ pc = "done"
    /\ calls["GET_status"] = 3
    /\ calls["notify"] = 3
    /\ calls["GET_outputs"] = 1
    /\ poll_ret.provisioningState = "Succeeded"

\* The operation main selected succeeded: the validation returned True, or
\* the deployment's final state is Succeeded.
OperationSucceeded ==
    IF what_if THEN validate_ret = "True"
               ELSE poll_ret.provisioningState = "Succeeded"

\* C5: main returns 0 only when the selected operation succeeded, and 1
\* whenever a stage failed, on the deploy path and the what-if path alike.
C5_ExitCodeReflectsOutcome ==
    pc = "done" =>
        /\ exit_code \in { 0, 1 }
        /\ exit_code = 0 <=> OperationSucceeded

\* The requests that submit, poll or read a deployment or a validation.
SubmissionOps ==
    { "POST_whatIf", "PUT_deployment", "GET_status", "GET_location",
      "GET_outputs" }

\* C6 as stated: when template compilation fails the run aborts and no
\* network call to the control plane has been or is issued in that run.
C6_CompilePrecedesEveryNetworkCall ==
    template = None =>
        /\ pc = "done"
        /\ \A op \in NetworkOps : calls[op] = 0

\* C6 amended: when template compilation fails the run aborts with 1 and no
\* submission, poll or outputs request is issued; the subscription lookup,
\* the container existence check and, when the check said absent, the
\* container creation have been issued before it.  No
\* submission, poll or outputs request is ever issued without a built
\* template.
C6_CompilePrecedesSubmission ==
    /\ template = None =>
         /\ pc = "done"
         /\ exit_code = 1
         /\ \A op \in SubmissionOps : calls[op] = 0
         /\ calls["GET_subscription"] = 1
         /\ calls["GET_resourcegroup"] = 1
         /\ calls["PUT_resourcegroup"] = IF rg_exists = "False" THEN 1 ELSE 0
    /\ \A op \in SubmissionOps :
         calls[op] > 0 => (calls["bicep_build"] = 1 /\ template = "template")

\* C6 witness: the build failed after the resource group had been created.
C6_Witness ==
    /\ template = None
    /\ calls["bicep_build"] = 1
    /\ calls["PUT_resourcegroup"] = 1
    /\ rg_created = "True"
    /\ exit_code = 1

\* The existence check got a not-found answer, or failed (raised, or got
\* any answer other than 200 and 404).
RgNotFound == ~rg_response.err /\ rg_response.code = 404
RgCheckFailed ==
    rg_response.err \/ rg_response.code \in ErrorCodes \ { 404 }

\* C7: createContainer is called at most once and only when containerExists
\* reported the container absent, and a failure of the existence check or
\* of the creation aborts the run: no compile, submission or poll follows.
C7_ContainerStepAborts ==
    /\ calls["PUT_resourcegroup"] <= 1
    /\ calls["PUT_resourcegroup"] = 1 => rg_exists = "False"
    /\ (RgCheckFailed \/ rg_created = "False") =>
         /\ pc = "done"
         /\ exit_code = 1
         /\ calls["bicep_build"] = 0
         /\ \A op \in SubmissionOps : calls[op] = 0

\* C8: check_resource_group_exists returns False only for a not-found
\* answer; a failed check is an outcome that is neither True nor False.
C8_FalseOnlyForNotFound ==
    /\ rg_exists = "False" => RgNotFound
    /\ RgCheckFailed => rg_exists \notin { "True", "False" }

\* C9: when the deployment PUT fails (it raises, or is answered 4xx/5xx)
\* deploy_template returns None, main returns 1 and no status fetch is ever
\* issued; a status fetch is issued only after a PUT that succeeded.
C9_NoPollAfterFailedSubmission ==
    /\ (~what_if /\ RequestFailed(submit_response)) =>
         /\ calls["GET_status"] = 0
         /\ calls["GET_outputs"] = 0
         /\ pc \in { "deployed", "done" }
         /\ result = NoneValue
         /\ pc = "done" => exit_code = 1
    /\ calls["GET_status"] > 0 =>
         (calls["PUT_deployment"] = 1 /\ ~RequestFailed(submit_response))

\* C9 witness: the PUT was answered 403 and main returned 1.
C9_Witness ==
    /\ ~what_if
    /\ submit_response.code = 403
    /\ calls["PUT_deployment"] = 1
    /\ pc = "done"
    /\ exit_code = 1

\* C10: an invocation in what-if mode never issues the deployment PUT, a
\* status poll or the outputs fetch; one in deploy mode never issues the
\* whatIf POST or a Location-URL poll.
C10_PathsExclusive ==
    /\ what_if =>
         /\ calls["PUT_deployment"] = 0
         /\ calls["GET_status"] = 0
         /\ calls["GET_outputs"] = 0
    /\ ~what_if =>
         /\ calls["POST_whatIf"] = 0
         /\ calls["GET_location"] = 0

\* C10 witness: a what-if run whose Location URL answered 202 twice, then
\* 200 with the preview, has ended.
C10_Witness ==
    /\ what_if
    /\ pc = "done"
    /\ calls["POST_whatIf"] = 1
    /\ calls["GET_location"] = 3
    /\ poll_end = "Resolved"
    /\ validate_ret = "True"

\* C11: the location-header poller maps each follow-up answer by its status
\* code: 202 is pending (the loop sleeps the interval and continues), 200 is
\* resolved (the loop returns the payload), anything else is failed (the
\* loop ends at once with None); and whenever the follow-up answers 200
\* after any number of 202s within the deadline, that payload is what the
\* validation reports as its successful result.
C11_LocationPollerMapping ==
    /\ [][ (calls'["GET_location"] > calls["GET_location"] /\ ~fetched'.err) =>
             IF fetched'.code = 202
               THEN /\ pc' = "poll_async"
                    /\ calls'["sleep"] = calls["sleep"] + 1
                    /\ now' >= now + poll_interval
             ELSE IF fetched'.code = 200
               THEN /\ pc' = "validate_deployment"
                    /\ poll_ret' = Dict(None, fetched'.payload)
               ELSE /\ pc' = "validate_deployment"
                    /\ poll_ret' = NoneValue ]_vars
    /\ []((what_if /\ pc = "done" /\ ~fetched.err /\ fetched.code = 200) =>
            /\ validate_ret = "True"
            /\ poll_ret = Dict(None, fetched.payload))

\* A submission was answered without raising, and a poll loop was entered.
Submitted == submit_response.code >= 0 /\ ~RequestFailed(submit_response)
PollStarted == pc \in PollPcs \/ poll_end # Unset

\* C12 as stated: for a submission response the HTTP status decides: a 202
\* is pending and is followed by polling, any other 2xx is treated as
\* resolved inline and no polling is started.
C12_StatusDecidesPolling ==
    Submitted =>
        IF submit_response.code = 202
          THEN PollStarted
          ELSE ~PollStarted /\ Fetches = 0

\* C12 amended: on the what-if path a 202 with a Location header is followed
\* by polling, a 202 without one is reported failed without polling, and any
\* other 2xx is reported successful inline without polling; on the deploy
\* path every 2xx answer, 202 or not, is followed by resource-status polling.
C12_StatusDecidesPollingOnWhatIf ==
    Submitted =>
        IF ~what_if THEN PollStarted
        ELSE IF submit_response.code = 202 /\ submit_response.location
          THEN PollStarted
        ELSE /\ ~PollStarted
             /\ Fetches = 0
             /\ pc = "done"
             /\ validate_ret = Bool(submit_response.code # 202)

\* C12 witness: a deployment PUT answered 200 (not 202) whose status is
\* being polled.
C12_Witness ==
    /\ ~what_if
    /\ submit_response.code = 200
    /\ calls["GET_status"] >= 1
    /\ pc = "poll_deployment"

\* C13: authenticate tries the primary provider first and the secondary
\* provider only when the primary failed with ClientAuthenticationError; any
\* other primary failure ends in failure without the secondary being tried,
\* and any failure of the secondary ends in failure.
C13_FallbackOnlyOnAuthError ==
    /\ calls["get_token_default"] <= calls["get_token_cli"]
    /\ calls["get_token_cli"] <= 1
    /\ auth_primary # Unset =>
         /\ calls["get_token_cli"] = 1
         /\ calls["get_token_default"] =
              IF auth_primary = "ClientAuthenticationError" THEN 1 ELSE 0
         /\ auth_secondary # Unset <=> auth_primary = "ClientAuthenticationError"
         /\ auth_primary = "Exception" =>
              (pc = "done" /\ exit_code = 1 /\ access_token = None)
         /\ auth_secondary \in { "ClientAuthenticationError", "Exception" } =>
              (pc = "done" /\ exit_code = 1 /\ access_token = None)
         /\ (auth_primary = "token" \/ auth_secondary = "token") =>
              access_token = "token"

\* C13 witness: the primary raised ClientAuthenticationError, the secondary
\* gave a token and the run went on.
C13_Witness ==
    /\ auth_primary = "ClientAuthenticationError"
    /\ auth_secondary = "token"
    /\ credential = "DefaultAzureCredential"
    /\ access_token = "token"
    /\ pc = "subscription_info"

\* A wrapped document {parameters: {name: {value: v}}}, and a flat mapping
\* name -> scalar value.
IsWrapped(doc) ==
    /\ DOMAIN doc = { "parameters" }
    /\ doc["parameters"].kind = "object"
    /\ \A k \in DOMAIN doc["parameters"].fields :
         /\ doc["parameters"].fields[k].kind = "object"
         /\ DOMAIN doc["parameters"].fields[k].fields = { "value" }
IsFlat(doc) == \A k \in DOMAIN doc : doc[k].kind = "scalar"

\* load_parameters returned the flat form {name: v} of a wrapped document.
ReturnsFlatForm ==
    /\ params_ret.ok
    /\ DOMAIN params_ret.mapping = DOMAIN params_doc["parameters"].fields
    /\ \A k \in DOMAIN params_ret.mapping :
         params_ret.mapping[k] = params_doc["parameters"].fields[k].fields["value"]

\* C14 as stated: load_parameters normalizes a wrapped document to the flat
\* mapping {name: v} and returns every flat mapping unchanged, whatever the
\* parameter names (a parameter named 'parameters' included).
C14_NormalizesOrUnchanged ==
    pc = "loaded" =>
        /\ IsWrapped(params_doc) => ReturnsFlatForm
        /\ IsFlat(params_doc) => params_ret = Loaded(params_doc)

\* C15: on the deploy path the invocation ends in success exactly when the
\* poll loop's final state is Succeeded (Failed, Canceled, timeout and
\* transport failure end in failure), the outputs are requested only after
\* Succeeded, and success does not depend on what the outputs request gave.
C15_SuccessIffSucceeded ==
    /\ []((~what_if /\ pc = "done" /\ poll_end # Unset) =>
            /\ exit_code = IF poll_end = "Terminal" /\ fetched.state = "Succeeded"
                             THEN 0 ELSE 1
            /\ calls["GET_outputs"] = IF exit_code = 0 THEN 1 ELSE 0)
    /\ [][ calls'["GET_outputs"] > calls["GET_outputs"] =>
             /\ poll_end = "Terminal" /\ fetched.state = "Succeeded"
             /\ exit_code' = 0 ]_vars

\* C15 witness: a Succeeded deployment whose template defines no outputs
\* ended in success.
C15_Witness ==
    /\ ~what_if /\ pc = "done" /\ exit_code = 0
    /\ poll_end = "Terminal" /\ fetched.state = "Succeeded"
    /\ outputs = Dict("Succeeded", "empty")

\* C16: any two invocations, two started within the same clock second
\* included, derive distinct deployment names.
C16_NamesDistinct ==
    \A r1, r2 \in Runs :
        (r1 # r2 /\ names[r1] # NoName /\ names[r2] # NoName) =>
            names[r1] # names[r2]

\* The state the latest fetch of the resource-status loop observed; None
\* before the loop's first fetch.
LastObserved == IF calls["GET_status"] = 0 THEN None ELSE fetched.state

\* C17: in the resource-status loop a fetch is followed by one progress
\* notification when the fetched state differs from the state the previous
\* fetch of the loop observed and by none when it is the same (or the fetch
\* failed), and a fetch of a non-terminal state leaves the loop running.
C17_NotifiesOnChange ==
    [][ calls'["GET_status"] > calls["GET_status"] =>
          IF RequestFailed(fetched')
            THEN calls'["notify"] = calls["notify"]
            ELSE /\ calls'["notify"] =
                      calls["notify"] +
                      (IF fetched'.state # LastObserved THEN 1 ELSE 0)
                 /\ fetched'.state \notin TerminalStates =>
                      pc' = "poll_deployment" /\ poll_end' = Unset ]_vars

\* C17 witness: Accepted, Running, Running was fetched: two notifications
\* for three fetches, and the loop is still running.
C17_Witness ==
    /\ pc = "poll_deployment"
    /\ calls["GET_status"] = 3
    /\ calls["notify"] = 2
    /\ last_status = "Running"

\* C18: in both poll loops a fetch that leaves the loop running is followed
\* by exactly one sleep of the configured interval before the next fetch,
\* and a fetch that ends the loop (terminal state, 200, failure status or
\* transport failure) is followed by none.
C18_OneSleepBetweenFetches ==
    /\ [][ Fetches' > Fetches =>
             /\ Fetches' = Fetches + 1
             /\ IF pc' \in PollPcs
                  THEN /\ calls'["sleep"] = calls["sleep"] + 1
                       /\ now' >= now + poll_interval
                  ELSE calls'["sleep"] = calls["sleep"] ]_vars
    /\ [][ calls'["sleep"] > calls["sleep"] => Fetches' > Fetches ]_vars
    /\ [](calls["sleep"] = IF pc \in PollPcs \/ poll_end = "Timeout"
                             THEN Fetches
                             ELSE IF Fetches = 0 THEN 0 ELSE Fetches - 1)

\* C18 witness: three fetches of the Location loop with two sleeps between
\* them, the third one ending the loop.
C18_Witness ==
    /\ calls["GET_location"] = 3
    /\ calls["sleep"] = 2
    /\ poll_end = "Resolved"

\* The submission requests issued so far, and the invocation's outcome once
\* its poll loop has ended (Succeeded, Failed, Canceled, TimedOut,
\* TransportFailed).
Submissions == calls["PUT_deployment"] + calls["POST_whatIf"]
PollOutcome ==
    \/ poll_end \in { "Timeout", "Transport", "Status", "Resolved" }
    \/ poll_end = "Terminal"
    \/ (~RequestFailed(fetched) /\ fetched.state \in TerminalStates)

\* C19: within one invocation the submission request is issued at most once
\* and at most one poll loop is started (only by the submission step), and
\* once the poll loop has reached an outcome there is no further submission
\* and no further fetch, and the invocation never polls again.
C19_NoRetry ==
    /\ [](Submissions <= 1)
    /\ [][ (pc \notin PollPcs /\ pc' \in PollPcs) =>
             /\ pc = "submit"
             /\ poll_end = Unset /\ Fetches = 0
             /\ Submissions' = 1 ]_vars
    /\ [][ PollOutcome =>
             /\ Submissions' = Submissions
             /\ Fetches' = Fetches
             /\ calls'["sleep"] = calls["sleep"]
             /\ pc' \notin PollPcs
             /\ poll_end' = poll_end ]_vars

\* C19 witness: the deployment was fetched Failed after a Running, and the
\* invocation ended with that one submission and those two fetches.
C19_Witness ==
    /\ pc = "done" /\ exit_code = 1
    /\ poll_end = "Terminal" /\ fetched.state = "Failed"
    /\ Submissions = 1 /\ calls["GET_status"] = 2

\* C20: both poll loops terminate.  An invocation in a poll loop eventually
\* leaves it, whatever the fetches answer: each iteration that stays in the
\* loop advances the clock, the time spent in the loop stays below the
\* timeout plus one iteration, and a loop that ran into its deadline (the
\* operation was transient at every fetch) returns None, which the
\* invocation reports as a failure.
C20_PollLoopsTerminate ==
    /\ (pc \in PollPcs) ~> (pc \notin PollPcs)
    /\ [][ (pc \in PollPcs /\ pc' = pc) => now' > now ]_vars
    /\ [](pc \in PollPcs =>
            now - start_time < timeout + poll_interval + MaxDelay)
    /\ [](poll_end = "Timeout" =>
            /\ poll_ret = NoneValue
            /\ pc = "done" =>
                 IF what_if THEN validate_ret = "False" ELSE exit_code = 1)

\* C20 witness: the Location URL answered 202 at each of three fetches and
\* the loop ended on its deadline.
C20_Witness ==
    /\ poll_end = "Timeout"
    /\ calls["GET_location"] = 3
    /\ fetched.code = 202
    /\ pc = "done"

\* The what-if submission was answered 202 without a Location header.
AcceptedWithoutLocation ==
    /\ what_if /\ Submitted
    /\ submit_response.code = 202 /\ ~submit_response.location

\* The poll of the Location URL resolved with a 200 whose payload is not
\* empty.
ResolvedNonEmpty ==
    /\ poll_end = "Resolved"
    /\ ~RequestFailed(fetched) /\ fetched.code = 200
    /\ fetched.payload # "empty"

\* C21: a what-if submission answered 202 without a Location header is
\* followed by no request and reported failed; a poll that resolved with
\* 200 and an empty payload is reported failed; validate_deployment reports
\* success only for a non-202 2xx submission or a 202 with a Location
\* whose poll resolved with a non-empty payload.
C21_ValidationVerdict ==
    /\ AcceptedWithoutLocation =>
         /\ Fetches = 0 /\ calls["sleep"] = 0 /\ poll_end = Unset
         /\ pc = "done" /\ validate_ret = "False"
    /\ (what_if /\ pc = "done" /\ poll_end = "Resolved"
          /\ fetched.payload = "empty") => validate_ret = "False"
    /\ (what_if /\ pc = "done") =>
         (validate_ret = "True" <=>
            /\ Submitted
            /\ IF submit_response.code = 202
                 THEN submit_response.location /\ ResolvedNonEmpty
                 ELSE Fetches = 0)
    /\ validate_ret = "True" => what_if /\ pc = "done"

\* C21 witness: the POST was answered 202 without a Location header and the
\* validation was reported failed with no request after it.
C21_Witness ==
    /\ AcceptedWithoutLocation
    /\ pc = "done" /\ validate_ret = "False"
    /\ calls["POST_whatIf"] = 1 /\ Fetches = 0

\* A status fetch of this step was answered, with a provisioningState that
\* is missing or outside {Succeeded, Failed, Canceled}.
FetchedNonTerminal ==
    /\ calls'["GET_status"] > calls["GET_status"]
    /\ ~RequestFailed(fetched')
    /\ fetched'.state \notin TerminalStates

\* C22: a status response whose provisioningState is missing or outside
\* {Succeeded, Failed, Canceled} (a value outside the declared enumeration
\* included) leaves the resource-status loop running and followed by a
\* sleep; the loop ends only on a fetched terminal state, on a failed
\* request, or on the deadline.
C22_UnknownStateIsTransient ==
    /\ [][ FetchedNonTerminal =>
             /\ pc' = "poll_deployment" /\ poll_end' = Unset
             /\ poll_ret' = poll_ret
             /\ calls'["sleep"] = calls["sleep"] + 1 ]_vars
    /\ [][ (pc = "poll_deployment" /\ pc' # "poll_deployment") =>
             \/ /\ poll_end' = "Terminal"
                /\ calls'["GET_status"] = calls["GET_status"] + 1
                /\ ~RequestFailed(fetched')
                /\ fetched'.state \in TerminalStates
             \/ /\ poll_end' = "Transport"
                /\ calls'["GET_status"] = calls["GET_status"] + 1
                /\ RequestFailed(fetched')
             \/ /\ poll_end' = "Timeout"
                /\ calls' = calls
                /\ now - start_time >= timeout ]_vars

\* C22 witness: the first status answer carried no provisioningState, the
\* second one a state outside the declared enumeration, and the loop is
\* still running.
C22_Witness ==
    /\ pc = "poll_deployment" /\ poll_end = Unset
    /\ calls["GET_status"] = 2 /\ calls["notify"] = 1
    /\ fetched.state = "Deleting" /\ last_status = "Deleting"

====
